---- MODULE Spec2Model ----
(***************************************************************************)
(* Model of src/bot.py: the raffle bot's persisted ledger (raffle_data.json) *)
(* and its five slash-command handlers (add, status, list, draw, reset),     *)
(* each a coroutine whose steps between awaits are atomic.                   *)
(***************************************************************************)
EXTENDS Integers, Sequences, FiniteSets, TLC

\* ------------------------------------------------------------------ bounds
\* Commands dispatched in one behaviour.
MaxOps == 3
\* Commands dispatched in one behaviour of the end-to-end scenario.
ScenarioOps == 4
\* Commands dispatched in one behaviour that starts from a stored file.
StoredOps == 2

\* ------------------------------------------------------- program constants
TICKET_FE_RATIO == 5000
PRIZE_FE == 10000

\* ------------------------------------------------------------------ inputs
\* discord.Member objects the gateway can hand to a handler: id and display name.
MemberIds == {7, 12}
DisplayNames == {"ana", "bia"}
Members == [id : MemberIds, display_name : DisplayNames]
\* fe_value arguments of /add.
FeValues == {-1, 0, 4999, 5000, 12000}
ScenarioValues == {3000, 12000}
StoredValues == {0, 5000}
Tasks == {"t1", "t2"}
Commands == {"add", "status", "list", "draw", "reset"}

\* discord.Interaction as validate_context reads it: the user is a guild Member
\* or a plain User, the member's administrator permission, the channel, the guild.
Interactions ==
    { [isMember |-> TRUE,  administrator |-> TRUE,  channel_id |-> 3, hasGuild |-> TRUE],
      [isMember |-> TRUE,  administrator |-> TRUE,  channel_id |-> 4, hasGuild |-> TRUE],
      [isMember |-> TRUE,  administrator |-> FALSE, channel_id |-> 3, hasGuild |-> TRUE],
      [isMember |-> FALSE, administrator |-> FALSE, channel_id |-> 3, hasGuild |-> FALSE],
      [isMember |-> TRUE,  administrator |-> TRUE,  channel_id |-> 3, hasGuild |-> FALSE] }

\* ------------------------------------------------- str() and int() of Python
Digit == <<"0", "1", "2", "3", "4", "5", "6", "7", "8", "9">>

RECURSIVE str(_)
str(n) == IF n < 10 THEN <<Digit[n + 1]>> ELSE Append(str(n \div 10), Digit[(n % 10) + 1])

DigitVal(c) == CHOOSE d \in 0..9 : Digit[d + 1] = c

RECURSIVE int(_)
int(s) == IF Len(s) = 1 THEN DigitVal(s[1])
          ELSE 10 * int(SubSeq(s, 1, Len(s) - 1)) + DigitVal(s[Len(s)])

\* ------------------------------------------------------------ reply texts
MsgNoPermission == "Voce nao tem permissao para usar este comando."
MsgWrongChannel == "Use os comandos apenas no canal configurado para sorteio."
MsgNoGuild == "Este comando so pode ser usado dentro de um servidor."
MsgInvalidAmount == "O valor de FE precisa ser maior que 0."
MsgNoTickets == "Esse valor nao gera ticket. E necessario no minimo 5.000 FE por ticket."
MsgGranted == "recebeu ticket(s)"
MsgNoRecord == "ainda nao possui tickets."
MsgStatus == "ticket(s), FE acumulados."
MsgNoParticipants == "Nenhum participante cadastrado ainda."
MsgList == "Participantes do sorteio"
MsgEmptyPool == "Nao ha tickets para realizar o sorteio."
MsgWinner == "RESULTADO DO SORTEIO"
MsgReset == "Sorteio resetado. Todos os participantes e tickets foram removidos."

\* --------------------------------------------------------------- the file
\* raffle_data.json: absent, or text that is not JSON ("blank": zero bytes), or a
\* JSON array, or a JSON object.  An object may hold a key other than
\* "participants" (extra), and its "participants" member is missing, null or a
\* mapping P: an ordered list of members, the numbers written as decimal text.
AbsentFile == [kind |-> "absent", extra |-> FALSE, pKind |-> "missing", P |-> <<>>]
BlankFile == [kind |-> "blank", extra |-> FALSE, pKind |-> "missing", P |-> <<>>]
ArrayFile == [kind |-> "array", extra |-> FALSE, pKind |-> "missing", P |-> <<>>]
ObjectFile(extra, pKind, P) == [kind |-> "object", extra |-> extra, pKind |-> pKind, P |-> P]

json_dump_info(info) ==
    [key |-> info.key, name |-> info.name,
     fe_total |-> str(info.fe_total), tickets |-> str(info.tickets)]

json_load_info(m) ==
    [key |-> m.key, name |-> m.name,
     fe_total |-> int(m.fe_total), tickets |-> int(m.tickets)]

\* A dict of Python (insertion-ordered) is a sequence of entries with distinct keys.
EmptyData == [extra |-> FALSE, pKind |-> "mapping", participants |-> <<>>]

load_data(f) ==
    CASE f.kind = "absent" -> [ok |-> TRUE, err |-> "", data |-> EmptyData]
      [] f.kind = "blank" -> [ok |-> FALSE, err |-> "JSONDecodeError", data |-> EmptyData]
      [] f.kind = "array" -> [ok |-> FALSE, err |-> "TypeError", data |-> EmptyData]
      [] OTHER ->
           IF f.pKind = "missing"
           THEN [ok |-> TRUE, err |-> "",
                 data |-> [extra |-> f.extra, pKind |-> "mapping", participants |-> <<>>]]
           ELSE [ok |-> TRUE, err |-> "",
                 data |-> [extra |-> f.extra, pKind |-> f.pKind,
                           participants |-> [i \in 1..Len(f.P) |-> json_load_info(f.P[i])]]]

save_data(data) ==
    ObjectFile(data.extra, data.pKind,
               [i \in 1..Len(data.participants) |-> json_dump_info(data.participants[i])])

\* --------------------------------------------------------- raffle engine
tickets_from_fe_rounded_up(fe_value) == (fe_value + TICKET_FE_RATIO - 1) \div TICKET_FE_RATIO

tickets_from_fe(fe_value) == fe_value \div TICKET_FE_RATIO

Repeat(x, n) == [i \in 1..n |-> x]

RECURSIVE build_pool_from(_, _)
build_pool_from(participants, i) ==
    IF i > Len(participants) THEN <<>>
    ELSE Repeat(participants[i].key, participants[i].tickets)
         \o build_pool_from(participants, i + 1)

build_pool_one_each(participants) == [i \in 1..Len(participants) |-> participants[i].key]

build_pool(participants) == build_pool_from(participants, 1)

\* dict helpers
HasKey(participants, k) == \E i \in 1..Len(participants) : participants[i].key = k
IndexOf(participants, k) == CHOOSE i \in 1..Len(participants) : participants[i].key = k

\* sorted(participants.values(), key=tickets, reverse=True): stable.
RECURSIVE InsertByTickets(_, _)
InsertByTickets(sorted, info) ==
    IF sorted = <<>> THEN <<info>>
    ELSE IF sorted[1].tickets >= info.tickets
         THEN <<sorted[1]>> \o InsertByTickets(Tail(sorted), info)
         ELSE <<info>> \o sorted

RECURSIVE sorted_by_tickets_from(_, _)
sorted_by_tickets_from(participants, n) ==
    IF n = 0 THEN <<>>
    ELSE InsertByTickets(sorted_by_tickets_from(participants, n - 1), participants[n])

sorted_by_tickets(participants) == sorted_by_tickets_from(participants, Len(participants))

\* --------------------------------------------------------- the bot's state
VARIABLES
    file,               \* raffle_data.json
    raffle_channel_id,  \* bot.raffle_channel_id: "" (unset) or a channel id as text
    task,               \* the running handlers: position, arguments, reply
    nops,               \* commands dispatched so far
    serial,             \* the ledger the accepted grants and resets give when applied one after another
    sinceReset,         \* an accepted reset was the last accepted write
    scen                \* progress of the scenario add 12000, status, add 3000, status

vars == <<file, raffle_channel_id, task, nops, serial, sinceReset, scen>>

NoMember == [id |-> 0, display_name |-> ""]
NoReply == [msg |-> "", member |-> 0, gained |-> 0, tickets |-> 0, fe_total |-> 0,
            winner |-> 0, lines |-> <<>>]
IdleTask == [pc |-> "idle", cmd |-> "", member |-> NoMember, fe_value |-> 0, reply |-> NoReply]

\* A handler past its last use of its arguments: only the reply is left to send.
Replying(pc, cmd, reply) ==
    [pc |-> pc, cmd |-> cmd, member |-> NoMember, fe_value |-> 0, reply |-> reply]

Text(msg) == [NoReply EXCEPT !.msg = msg]

has_admin(interaction) ==
    IF ~interaction.isMember THEN FALSE ELSE interaction.administrator

validate_context(channel, interaction) ==
    IF ~has_admin(interaction) THEN [valid |-> FALSE, error |-> MsgNoPermission]
    ELSE IF channel # <<>> /\ str(interaction.channel_id) # channel
         THEN [valid |-> FALSE, error |-> MsgWrongChannel]
    ELSE IF ~interaction.hasGuild THEN [valid |-> FALSE, error |-> MsgNoGuild]
    ELSE [valid |-> TRUE, error |-> ""]


\* ------------------------------------------------------- handler bodies
\* What a handler does between validate_context and its reply: the reply it
\* builds, whether it raised instead, and the file it leaves.
Outcome(raised, reply, f) == [raised |-> raised, reply |-> reply, file |-> f]

\* Lines 106-115 of add_participant: the record is created when absent, then
\* renamed and credited.
credit_keeping_name(participants, user_id, display_name, fe_value, gained_tickets) ==
    LET p1 == IF HasKey(participants, user_id) THEN participants
              ELSE Append(participants, [key |-> user_id, name |-> display_name,
                                         fe_total |-> 0, tickets |-> 0])
        i == IndexOf(p1, user_id)
    IN [p1 EXCEPT ![i].fe_total = @ + fe_value, ![i].tickets = @ + gained_tickets]

credit_dropping_others(participants, user_id, display_name, fe_value, gained_tickets) ==
    LET old == IF HasKey(participants, user_id)
               THEN participants[IndexOf(participants, user_id)]
               ELSE [key |-> user_id, name |-> display_name, fe_total |-> 0, tickets |-> 0]
    IN <<[old EXCEPT !.name = display_name, !.fe_total = @ + fe_value,
                     !.tickets = @ + gained_tickets]>>

credit_overwriting(participants, user_id, display_name, fe_value, gained_tickets) ==
    LET p1 == IF HasKey(participants, user_id) THEN participants
              ELSE Append(participants, [key |-> user_id, name |-> display_name,
                                         fe_total |-> 0, tickets |-> 0])
        i == IndexOf(p1, user_id)
    IN [p1 EXCEPT ![i].name = display_name, ![i].fe_total = fe_value,
                  ![i].tickets = gained_tickets]

credit(participants, user_id, display_name, fe_value, gained_tickets) ==
    LET p1 == IF HasKey(participants, user_id) THEN participants
              ELSE Append(participants, [key |-> user_id, name |-> display_name,
                                         fe_total |-> 0, tickets |-> 0])
        i == IndexOf(p1, user_id)
    IN [p1 EXCEPT ![i].name = display_name,
                  ![i].fe_total = @ + fe_value,
                  ![i].tickets = @ + gained_tickets]

\* add_participant without the early return of a value that gains no ticket.
add_participant_accumulating(f, member, fe_value) ==
    IF fe_value <= 0 THEN Outcome(FALSE, Text(MsgInvalidAmount), f)
    ELSE LET gained_tickets == tickets_from_fe(fe_value)
             L == load_data(f) IN
    IF ~L.ok THEN Outcome(TRUE, Text(L.err), f)
    ELSE IF L.data.pKind = "null" THEN Outcome(TRUE, Text("TypeError"), f)
    ELSE LET user_id == str(member.id)
             participants == credit(L.data.participants, user_id, member.display_name,
                                    fe_value, gained_tickets)
             info == participants[IndexOf(participants, user_id)]
             data == [L.data EXCEPT !.participants = participants]
         IN Outcome(FALSE,
                    [NoReply EXCEPT !.msg = IF gained_tickets = 0 THEN MsgNoTickets
                                             ELSE MsgGranted,
                                    !.member = member.id,
                                    !.gained = gained_tickets,
                                    !.tickets = info.tickets, !.fe_total = info.fe_total],
                    save_data(data))

add_participant(f, member, fe_value) ==
    IF fe_value <= 0 THEN Outcome(FALSE, Text(MsgInvalidAmount), f)
    ELSE LET gained_tickets == tickets_from_fe(fe_value) IN
    IF gained_tickets = 0 THEN Outcome(FALSE, Text(MsgNoTickets), f)
    ELSE LET L == load_data(f) IN
    IF ~L.ok THEN Outcome(TRUE, Text(L.err), f)
    \* `user_id not in participants` on None raises TypeError
    ELSE IF L.data.pKind = "null" THEN Outcome(TRUE, Text("TypeError"), f)
    ELSE LET user_id == str(member.id)
             participants == credit(L.data.participants, user_id, member.display_name,
                                    fe_value, gained_tickets)
             info == participants[IndexOf(participants, user_id)]
             data == [L.data EXCEPT !.participants = participants]
         IN Outcome(FALSE,
                    [NoReply EXCEPT !.msg = MsgGranted, !.member = member.id,
                                    !.gained = gained_tickets,
                                    !.tickets = info.tickets, !.fe_total = info.fe_total],
                    save_data(data))

participant_status(f, member) ==
    LET L == load_data(f) IN
    IF ~L.ok THEN Outcome(TRUE, Text(L.err), f)
    \* None has no .get
    ELSE IF L.data.pKind = "null" THEN Outcome(TRUE, Text("AttributeError"), f)
    ELSE LET user_id == str(member.id)
             participants == L.data.participants
         IN IF ~HasKey(participants, user_id)
            THEN Outcome(FALSE, [NoReply EXCEPT !.msg = MsgNoRecord, !.member = member.id], f)
            ELSE LET participant == participants[IndexOf(participants, user_id)]
                 IN Outcome(FALSE,
                            [NoReply EXCEPT !.msg = MsgStatus, !.member = member.id,
                                            !.tickets = participant.tickets,
                                            !.fe_total = participant.fe_total],
                            f)

list_participants(f) ==
    LET L == load_data(f) IN
    IF ~L.ok THEN Outcome(TRUE, Text(L.err), f)
    \* `not participants` is true of None and of the empty dict
    ELSE IF L.data.pKind = "null" \/ L.data.participants = <<>>
         THEN Outcome(FALSE, Text(MsgNoParticipants), f)
    ELSE LET ranked == sorted_by_tickets(L.data.participants)
         IN Outcome(FALSE,
                    [NoReply EXCEPT !.msg = MsgList,
                                    !.lines = [i \in 1..Len(ranked) |->
                                                 <<ranked[i].name, ranked[i].tickets,
                                                   ranked[i].fe_total>>]],
                    f)

\* draw_winner choosing among the participants, not among their tickets.
draw_winner_among_participants(f, choice) ==
    LET L == load_data(f) IN
    IF ~L.ok THEN Outcome(TRUE, Text(L.err), f)
    ELSE IF L.data.pKind = "null" THEN Outcome(TRUE, Text("AttributeError"), f)
    ELSE LET participants == L.data.participants IN
         IF participants = <<>> THEN Outcome(FALSE, Text(MsgEmptyPool), f)
         ELSE Outcome(FALSE,
                      [NoReply EXCEPT !.msg = MsgWinner,
                                      !.winner = int(participants[((choice - 1) % Len(participants)) + 1].key)],
                      f)

\* draw_winner with random.choice(pool) returning pool[choice].
draw_winner(f, choice) ==
    LET L == load_data(f) IN
    IF ~L.ok THEN Outcome(TRUE, Text(L.err), f)
    \* None has no .items
    ELSE IF L.data.pKind = "null" THEN Outcome(TRUE, Text("AttributeError"), f)
    ELSE LET pool == build_pool(L.data.participants) IN
         IF pool = <<>> THEN Outcome(FALSE, Text(MsgEmptyPool), f)
         ELSE Outcome(FALSE,
                      [NoReply EXCEPT !.msg = MsgWinner,
                                      !.winner = int(pool[((choice - 1) % Len(pool)) + 1])],
                      f)

PoolSize(f) ==
    LET L == load_data(f) IN
    IF L.ok /\ L.data.pKind = "mapping" THEN Len(build_pool(L.data.participants)) ELSE 0

reset_raffle_keeping_file(f) == Outcome(FALSE, Text(MsgReset), f)

reset_raffle(f) == Outcome(FALSE, Text(MsgReset), save_data(EmptyData))


\* ------------------------------------------------------------- observers
\* The ledger as a set of records, whatever the order of the dict.
AsSet(participants) == {participants[i] : i \in 1..Len(participants)}

Ledger(f) == LET L == load_data(f) IN IF L.ok THEN AsSet(L.data.participants) ELSE {}

\* grant of the ledger taken as a set: the record of `key` replaced by its sum.
SerialGrant(ledger, key, name, fe_value) ==
    LET old == {r \in ledger : r.key = key}
        fe0 == IF old = {} THEN 0 ELSE (CHOOSE r \in old : TRUE).fe_total
        tk0 == IF old = {} THEN 0 ELSE (CHOOSE r \in old : TRUE).tickets
    IN (ledger \ old) \cup
       {[key |-> key, name |-> name, fe_total |-> fe0 + fe_value,
         tickets |-> tk0 + (fe_value \div TICKET_FE_RATIO)]}

\* The scenario of the end-to-end test: add(7, 12000), status(7), add(7, 3000),
\* status(7), one after another with nothing in between, from the empty ledger.
ScenStart == [k |-> 0, r1 |-> <<0, 0>>, m3 |-> "", r2 |-> <<0, 0>>]
ScenOff == [k |-> -1, r1 |-> <<0, 0>>, m3 |-> "", r2 |-> <<0, 0>>]

Reported(reply) ==
    IF reply.msg = MsgStatus THEN <<reply.tickets, reply.fe_total>> ELSE <<-1, -1>>

ScenNext(s, cmd, member, fe_value, reply) ==
    IF s.k = 0 /\ cmd = "add" /\ member.id = 7 /\ fe_value = 12000 /\ reply.msg = MsgGranted
    THEN [s EXCEPT !.k = 1]
    ELSE IF s.k = 1 /\ cmd = "status" /\ member.id = 7 /\ reply.msg \in {MsgStatus, MsgNoRecord}
    THEN [s EXCEPT !.k = 2, !.r1 = Reported(reply)]
    ELSE IF s.k = 2 /\ cmd = "add" /\ member.id = 7 /\ fe_value = 3000
            /\ reply.msg \in {MsgGranted, MsgNoTickets, MsgInvalidAmount}
    THEN [s EXCEPT !.k = 3, !.m3 = reply.msg]
    ELSE IF s.k = 3 /\ cmd = "status" /\ member.id = 7 /\ reply.msg \in {MsgStatus, MsgNoRecord}
    THEN [s EXCEPT !.k = 4, !.r2 = Reported(reply)]
    ELSE ScenOff

\* ---------------------------------------------------------------- actions
\* The gateway invokes a handler with its interaction and arguments.  The handler
\* runs `valid, error = await validate_context(interaction)`, which holds no
\* await of its own, and either builds the error reply or goes on to its body;
\* other handlers may run before the body does.
\* The arguments a command takes: add a member and a value, status a member (of
\* which it reads the id alone), the others none.
ArgMembers(cmd, members) ==
    CASE cmd = "add" -> members
      [] cmd = "status" -> {[m EXCEPT !.display_name = ""] : m \in members}
      [] OTHER -> {NoMember}

ArgValues(cmd, values) == IF cmd = "add" THEN values ELSE {0}

DispatchFrom(t, cmds, members, values, limit) ==
    /\ task[t].pc = "idle"
    /\ nops < limit
    /\ \E cmd \in cmds, interaction \in Interactions :
         LET r == validate_context(raffle_channel_id, interaction) IN
         IF ~r.valid
         THEN /\ task' = [task EXCEPT ![t] = Replying("reply", cmd, Text(r.error))]
              /\ scen' = ScenNext(scen, cmd, NoMember, 0, Text(r.error))
         ELSE /\ \E member \in ArgMembers(cmd, members), fe_value \in ArgValues(cmd, values) :
                   task' = [task EXCEPT ![t] =
                              [pc |-> "body", cmd |-> cmd, member |-> member,
                               fe_value |-> fe_value, reply |-> NoReply]]
              /\ scen' = scen
    /\ nops' = nops + 1
    /\ UNCHANGED <<file, raffle_channel_id, serial, sinceReset>>

Dispatch(t) == DispatchFrom(t, Commands, Members, FeValues, MaxOps)

\* The commands of the end-to-end scenario alone.
DispatchScenario(t) ==
    DispatchFrom(t, {"add", "status"}, {m \in Members : m.display_name = "ana"},
                 ScenarioValues, ScenarioOps)

\* Commands over a raffle_data.json found at start-up.
DispatchStored(t) == DispatchFrom(t, Commands, Members, StoredValues, StoredOps)

\* A handler body leaves outcome o: the task is at its reply, or has raised.
Leave(t, o) ==
    /\ task' = [task EXCEPT ![t] = Replying(IF o.raised THEN "raised" ELSE "reply",
                                             task[t].cmd, o.reply)]
    /\ file' = o.file
    /\ scen' = ScenNext(scen, task[t].cmd, task[t].member, task[t].fe_value, o.reply)
    /\ UNCHANGED <<raffle_channel_id, nops>>

AddBody(t) ==
    /\ task[t].pc = "body" /\ task[t].cmd = "add"
    /\ LET o == add_participant(file, task[t].member, task[t].fe_value) IN
         /\ Leave(t, o)
         /\ IF o.reply.msg = MsgGranted /\ ~o.raised
            THEN /\ serial' = SerialGrant(serial, str(task[t].member.id),
                                          task[t].member.display_name, task[t].fe_value)
                 /\ sinceReset' = FALSE
            ELSE UNCHANGED <<serial, sinceReset>>

StatusBody(t) ==
    /\ task[t].pc = "body" /\ task[t].cmd = "status"
    /\ Leave(t, participant_status(file, task[t].member))
    /\ UNCHANGED <<serial, sinceReset>>

ListBody(t) ==
    /\ task[t].pc = "body" /\ task[t].cmd = "list"
    /\ Leave(t, list_participants(file))
    /\ UNCHANGED <<serial, sinceReset>>

DrawBody(t) ==
    /\ task[t].pc = "body" /\ task[t].cmd = "draw"
    /\ \E choice \in 1..(IF PoolSize(file) = 0 THEN 1 ELSE PoolSize(file)) :
         Leave(t, draw_winner(file, choice))
    /\ UNCHANGED <<serial, sinceReset>>

ResetBody(t) ==
    /\ task[t].pc = "body" /\ task[t].cmd = "reset"
    /\ Leave(t, reset_raffle(file))
    /\ serial' = {}
    /\ sinceReset' = TRUE

\* The awaited send_message completes and the handler returns, or the exception
\* it raised reaches the command tree.
Finish(t) ==
    /\ task[t].pc \in {"reply", "raised"}
    /\ task' = [task EXCEPT ![t] = IdleTask]
    /\ UNCHANGED <<file, raffle_channel_id, nops, serial, sinceReset, scen>>

Next ==
    \E t \in Tasks :
        \/ Dispatch(t)
        \/ AddBody(t)
        \/ StatusBody(t)
        \/ ListBody(t)
        \/ DrawBody(t)
        \/ ResetBody(t)
        \/ Finish(t)

\* The bot starts with no raffle_data.json.
Init ==
    /\ file = AbsentFile
    /\ raffle_channel_id \in {<<>>, str(3)}
    /\ task = [t \in Tasks |-> IdleTask]
    /\ nops = 0
    /\ serial = {}
    /\ sinceReset = FALSE
    /\ scen = ScenStart

Spec == Init /\ [][Next]_vars


NextScenario ==
    \E t \in Tasks :
        \/ DispatchScenario(t)
        \/ AddBody(t)
        \/ StatusBody(t)
        \/ Finish(t)

SpecScenario == Init /\ [][NextScenario]_vars


\* A raffle_data.json found at start-up: written by an earlier run, by hand or by
\* another tool.  Its records are well formed; the shape around them need not be.
StoredInfos(id) ==
    { [key |-> str(id), name |-> "ana", fe_total |-> str(x[1]), tickets |-> str(x[2])] :
        x \in {<<3000, 0>>, <<12000, 2>>} }

StoredMappings ==
    {<<>>}
    \cup { <<a>> : a \in StoredInfos(7) \cup StoredInfos(12) }
    \cup { <<a, b>> : a \in StoredInfos(7), b \in StoredInfos(12) }
    \cup { <<b, a>> : a \in StoredInfos(7), b \in StoredInfos(12) }

StoredFiles ==
    {AbsentFile, BlankFile, ArrayFile,
     ObjectFile(FALSE, "missing", <<>>), ObjectFile(TRUE, "missing", <<>>),
     ObjectFile(FALSE, "null", <<>>)}
    \cup { ObjectFile(FALSE, "mapping", P) : P \in StoredMappings }

InitStored ==
    /\ file \in StoredFiles
    /\ raffle_channel_id \in {<<>>, str(3)}
    /\ task = [t \in Tasks |-> IdleTask]
    /\ nops = 0
    /\ serial = Ledger(file)
    /\ sinceReset = FALSE
    /\ scen = ScenOff

NextStored ==
    \E t \in Tasks :
        \/ DispatchStored(t)
        \/ AddBody(t)
        \/ StatusBody(t)
        \/ ListBody(t)
        \/ DrawBody(t)
        \/ ResetBody(t)
        \/ Finish(t)

SpecStored == InitStored /\ [][NextStored]_vars


\* ================================================================ claims
RECURSIVE SumTickets(_)
SumTickets(ledger) ==
    IF ledger = {} THEN 0
    ELSE LET r == CHOOSE x \in ledger : TRUE IN r.tickets + SumTickets(ledger \ {r})

Count(seq, x) == Cardinality({i \in 1..Len(seq) : seq[i] = x})

\* The file loads, and its participants member is a mapping.
Loadable(f) == load_data(f).ok /\ load_data(f).data.pKind = "mapping"

\* The record of `key` in a ledger, or the zero record when it has none.
RecordOf(ledger, key) ==
    IF \E r \in ledger : r.key = key
    THEN CHOOSE r \in ledger : r.key = key
    ELSE [key |-> key, name |-> "", fe_total |-> 0, tickets |-> 0]

\* Task t runs the body of its handler in this step.
Ran(t, cmd) ==
    /\ task[t].pc = "body" /\ task[t].cmd = cmd
    /\ task'[t].pc \in {"reply", "raised"}

Replied(t, cmd, msg) ==
    task[t].pc = "reply" /\ task[t].cmd = cmd /\ task[t].reply.msg = msg

\* C1: in every reachable state every record has tickets = floor(fe_total / 5000).
C1_TicketsAreFloorOfTotal ==
    \A r \in Ledger(file) : r.tickets = r.fe_total \div TICKET_FE_RATIO

\* C2: an add with fe_value <= 0 is answered InvalidAmount, one with fe_value in
\* 1..4999 is answered NoTicketsGranted, the two answers differ, and neither
\* changes the file (nothing is saved).
C2_RejectedGrantChangesNothing ==
    [][\A t \in Tasks : Ran(t, "add") =>
          /\ MsgInvalidAmount # MsgNoTickets
          /\ task[t].fe_value <= 0 =>
                /\ task'[t].pc = "reply"
                /\ task'[t].reply.msg = MsgInvalidAmount
                /\ file' = file
          /\ task[t].fe_value \in 1..(TICKET_FE_RATIO - 1) =>
                /\ task'[t].pc = "reply"
                /\ task'[t].reply.msg = MsgNoTickets
                /\ file' = file]_vars

\* C2 witness: over a ledger that holds records, one add was answered
\* InvalidAmount and another NoTicketsGranted.
C2_Witness ==
    /\ Ledger(file) # {}
    /\ \E t, u \in Tasks : /\ Replied(t, "add", MsgInvalidAmount)
                           /\ Replied(u, "add", MsgNoTickets)

\* C3 as claimed: add(7, 12000), status(7), add(7, 3000), status(7) from the empty
\* ledger report 2 tickets and 12000, then 2 tickets and 15000.
C3_ScenarioAsClaimed ==
    scen.k = 4 => scen.r1 = <<2, 12000>> /\ scen.r2 = <<2, 15000>>

\* C3 amended: the first status reports 2 tickets and 12000; the add of 3000 is
\* answered NoTicketsGranted; the second status still reports 2 tickets and 12000.
C3_Scenario ==
    /\ scen.k >= 2 => scen.r1 = <<2, 12000>>
    /\ scen.k >= 3 => scen.m3 = MsgNoTickets
    /\ scen.k = 4 => scen.r2 = <<2, 12000>>

\* C3 witness: the four commands of the scenario have run.
C3_Witness == scen.k = 4

\* C4: an add of fe_value >= 5000 for member m leaves, in the ledger the file then
\* loads as, m's record with the given display name, fe_total raised by fe_value
\* and tickets raised by floor(fe_value / 5000) (from zero when m had no record);
\* 5000 adds one ticket; and the reply reports those totals.
C4_SuccessfulGrant ==
    [][\A t \in Tasks :
         (Ran(t, "add") /\ task[t].fe_value >= TICKET_FE_RATIO /\ Loadable(file)) =>
            LET key == str(task[t].member.id)
                before == RecordOf(Ledger(file), key)
                after == RecordOf(Ledger(file'), key)
            IN /\ task'[t].pc = "reply" /\ task'[t].reply.msg = MsgGranted
               /\ Loadable(file')
               /\ \E r \in Ledger(file') : r.key = key
               /\ after.name = task[t].member.display_name
               /\ after.fe_total = before.fe_total + task[t].fe_value
               /\ after.tickets = before.tickets + (task[t].fe_value \div TICKET_FE_RATIO)
               /\ task[t].fe_value = TICKET_FE_RATIO => after.tickets = before.tickets + 1
               /\ after.fe_total >= before.fe_total /\ after.tickets >= before.tickets
               /\ task'[t].reply.tickets = after.tickets
               /\ task'[t].reply.fe_total = after.fe_total]_vars

\* C4 witness: a grant was added to a record that already held tickets, and the
\* record carries a new display name.
C4_Witness ==
    \E t \in Tasks :
        /\ Replied(t, "add", MsgGranted)
        /\ task[t].reply.tickets > task[t].reply.gained
        /\ \E r \in Ledger(file) : r.key = str(task[t].reply.member) /\ r.name = "bia"
        /\ \E u \in Tasks \ {t} : Replied(u, "add", MsgGranted)
                                  /\ u # t /\ task[u].reply.member = task[t].reply.member

\* C5: the file changes only in the body of an add that is granted or of a reset;
\* status, list, draw and every command validate_context rejects leave it alone;
\* and a granted add leaves every other participant's record as it was.
C5_OnlyGrantAndResetWrite ==
    [][/\ file' # file =>
            \E t \in Tasks : \/ Ran(t, "reset") /\ task'[t].reply.msg = MsgReset
                             \/ Ran(t, "add") /\ task'[t].reply.msg = MsgGranted
       /\ \A t \in Tasks :
            /\ (task[t].pc = "idle" /\ task'[t].pc = "reply") => file' = file
            /\ (Ran(t, "status") \/ Ran(t, "list") \/ Ran(t, "draw")) => file' = file
            /\ (Ran(t, "add") /\ task'[t].reply.msg = MsgGranted) =>
                 LET key == str(task[t].member.id) IN
                 /\ {r \in Ledger(file') : r.key # key} = {r \in Ledger(file) : r.key # key}
                 /\ {r.key : r \in Ledger(file')} = {r.key : r \in Ledger(file)} \cup {key}
      ]_vars

\* C5 witness: a granted add ran over a ledger holding another participant's
\* record while a status had already answered.
C5_Witness ==
    \E t, u \in Tasks :
        /\ Replied(t, "add", MsgGranted)
        /\ Replied(u, "status", MsgStatus)
        /\ task[u].reply.member # task[t].reply.member
        /\ Cardinality(Ledger(file)) = 2

\* C6: over a file that loads, draw answers EmptyPool exactly when the tickets of
\* all records sum to zero; otherwise the winner is the id of a record with at
\* least one ticket, and is the holder of all tickets when one record holds them
\* all; draw leaves the file alone.
C6_Draw ==
    [][\A t \in Tasks : (Ran(t, "draw") /\ Loadable(file)) =>
          /\ file' = file
          /\ task'[t].pc = "reply"
          /\ task'[t].reply.msg \in {MsgEmptyPool, MsgWinner}
          /\ task'[t].reply.msg = MsgEmptyPool <=> SumTickets(Ledger(file)) = 0
          /\ task'[t].reply.msg = MsgWinner =>
               /\ \E r \in Ledger(file) : /\ r.key = str(task'[t].reply.winner)
                                          /\ r.tickets >= 1
               /\ \A r \in Ledger(file) :
                    r.tickets = SumTickets(Ledger(file)) => task'[t].reply.winner = int(r.key)
      ]_vars

\* C6 witness: a draw named a winner over a ledger of two records, one of them
\* without tickets.
C6_Witness ==
    \E t \in Tasks :
        /\ Replied(t, "draw", MsgWinner)
        /\ Cardinality(Ledger(file)) = 2
        /\ \E r \in Ledger(file) : r.tickets = 0

\* C7: in the pool build_pool makes of the loaded ledger every id occurs as often
\* as its record has tickets (an id without record or without tickets not at
\* all), so the pool is as long as the sum of all tickets.
C7_BuildPool ==
    Loadable(file) =>
        LET participants == load_data(file).data.participants
            pool == build_pool(participants)
        IN /\ \A id \in MemberIds \cup {0} :
                Count(pool, str(id)) = RecordOf(AsSet(participants), str(id)).tickets
           /\ \A i \in 1..Len(pool) : \E r \in AsSet(participants) : r.key = pool[i]
           /\ Len(pool) = SumTickets(AsSet(participants))

\* C7 witness: a draw has built the pool of a ledger with a record of two tickets
\* or more and a record of none.
C7_Witness ==
    /\ \E t \in Tasks : Replied(t, "draw", MsgWinner)
    /\ \E r \in Ledger(file) : r.tickets >= 2
    /\ \E r \in Ledger(file) : r.tickets = 0

\* C8: from an accepted reset until the next granted add the file is the empty
\* ledger: list answers that there are no participants, status that the member
\* has no record, draw that the pool is empty.
C8_AfterReset ==
    [][/\ (\E t \in Tasks : Ran(t, "reset")) => sinceReset'
       /\ sinceReset' => (Loadable(file') /\ Ledger(file') = {}
                          /\ load_data(file').data.participants = <<>>)
       /\ \A t \in Tasks :
            sinceReset =>
              /\ Ran(t, "list") => task'[t].reply.msg = MsgNoParticipants
                                   /\ task'[t].reply.lines = <<>>
              /\ Ran(t, "status") => task'[t].reply.msg = MsgNoRecord
              /\ Ran(t, "draw") => task'[t].reply.msg = MsgEmptyPool
      ]_vars

\* C8 witness: a list answered after a reset that wiped a granted add.
C8_Witness ==
    /\ sinceReset
    /\ \E t, u \in Tasks : /\ Replied(t, "list", MsgNoParticipants)
                           /\ Replied(u, "add", MsgGranted)

\* The stored file is neither absent nor the empty object, and has no
\* participants mapping.
Malformed(f) ==
    /\ f.kind # "absent"
    /\ f # ObjectFile(FALSE, "missing", <<>>)
    /\ ~(f.kind = "object" /\ f.pKind = "mapping")

\* C9: a handler that loads an absent or empty record raises nothing, and one
\* that loads a record of any other malformed shape raises and leaves the file
\* as stored.
C9_CorruptStateSurfaced ==
    [][\A t \in Tasks :
         (\/ Ran(t, "add") /\ task[t].fe_value >= TICKET_FE_RATIO
          \/ Ran(t, "status") \/ Ran(t, "list") \/ Ran(t, "draw")) =>
            /\ (file = AbsentFile \/ file = ObjectFile(FALSE, "missing", <<>>)) =>
                  task'[t].pc = "reply"
            /\ Malformed(file) => (task'[t].pc = "raised" /\ file' = file)
      ]_vars

\* C10: whatever the interleaving of the handlers, the ledger in the file is the
\* one the granted adds and the resets give when applied one after another in the
\* order of their saves.
C10_NoLostUpdate == Ledger(file) = serial

\* C10 witness: two adds for the same member ran while both handlers were in
\* flight, and the later reply reports the sum of both.
C10_Witness ==
    \E t, u \in Tasks :
        /\ t # u
        /\ Replied(t, "add", MsgGranted) /\ Replied(u, "add", MsgGranted)
        /\ task[t].reply.member = task[u].reply.member
        /\ task[u].reply.tickets = task[t].reply.tickets + task[u].reply.gained
        /\ RecordOf(Ledger(file), str(task[u].reply.member)).fe_total = task[u].reply.fe_total

====
